---- MODULE Spec2Model ----
(***************************************************************************)
(* Model of the throttled fire-and-forget dispatch loop of src/src/main.rs *)
(* (main, lines 131-161) together with the delivery tasks it spawns (lines *)
(* 152-158) and drain_threadpool (lines 181-193).                          *)
(*                                                                         *)
(* The driving loop is one process whose position is pc; every spawned     *)
(* tokio task is a small process of its own (task[id]).  The variables     *)
(* ins, ctl, pass, joined, sent and fault are history variables: they      *)
(* record what the loop did and never influence what it does.              *)
(***************************************************************************)
EXTENDS Integers, Sequences, FiniteSets, TLC

\* Bound on the number of events generated in one run (the loop is unbounded).
MaxIter == 4

\* Largest ceiling explored (the program passes 1024 * 1024 at main.rs:160).
MaxCeiling == 3

Ids == 1..MaxIter

\* The three results of `result.await` in the spawned task (main.rs:153-157).
Outcomes == {"Delivered", "BrokerRejected", "Cancelled"}

VARIABLES
    ceiling,      \* the `limit` argument of drain_threadpool
    pc,           \* position of the driving loop
    iter,         \* number of messages generated so far; also the id of the current one
    handles,      \* Vec<JoinHandle<()>>: sequence of task ids, last = top
    thread,       \* the handle popped at line 187 and awaited at line 188 (0: none)
    task,         \* state of each spawned task
    outcome,      \* what the delivery future of each task resolved to
    outLog,       \* per delivery: the outcome lines logged for it
    submitErrs,   \* number of error!("Kafka Error") lines logged at line 147
    drainStarts,  \* number of info!("Draining thread pool...") lines logged
    ins,          \* history: results of the submission calls, in order
    ctl,          \* history: register / drain / pop / return steps with the set size
    pass,         \* history: ids tracked when the latest drain pass started
    joined,       \* history: ids whose handle has been awaited to completion
    sent,         \* history: how often each message was passed to send_result
    fault         \* history: the fatal fault that occurred ("none": none so far)

vars == <<ceiling, pc, iter, handles, thread, task, outcome, outLog,
          submitErrs, drainStarts, ins, ctl, pass, joined, sent, fault>>

Range(s) == {s[i] : i \in DOMAIN s}

\* The positions of the loop body outside drain_threadpool (lines 134-158).
LoopPcs == {"generate", "serialize", "submit", "spawn"}

\* The positions inside drain_threadpool (lines 181-193).
DrainPcs == {"drain_check", "drain_pop", "drain_await"}

\* The positions after which main never runs again.
StoppedPcs == {"panicked", "returned"}

Init ==
    /\ ceiling \in 1..MaxCeiling
    /\ pc = "generate"
    /\ iter = 0
    /\ handles = <<>>
    /\ thread = 0
    /\ task = [i \in Ids |-> "none"]
    /\ outcome = [i \in Ids |-> "none"]
    /\ outLog = [i \in Ids |-> <<>>]
    /\ submitErrs = 0
    /\ drainStarts = 0
    /\ ins = <<>>
    /\ ctl = <<>>
    /\ pass = {}
    /\ joined = {}
    /\ sent = [i \in Ids |-> 0]
    /\ fault = "none"

----------------------------------------------------------------------------
(* The driving loop: main.rs lines 133-161.                                 *)

\* Line 134: Message::with_rng returns a message.
Generate ==
    /\ pc = "generate"
    /\ iter < MaxIter
    /\ iter' = iter + 1
    /\ pc' = "serialize"
    /\ UNCHANGED <<ceiling, handles, thread, task, outcome, outLog,
                   submitErrs, drainStarts, ins, ctl, pass, joined, sent, fault>>

\* Lines 68-70: the clock is before the epoch, expect() panics.
GeneratePanic ==
    /\ pc = "generate"
    /\ pc' = "panicked"
    /\ fault' = "clock"
    /\ UNCHANGED <<ceiling, iter, handles, thread, task, outcome, outLog,
                   submitErrs, drainStarts, ins, ctl, pass, joined, sent>>

\* Line 135: serde_json::to_string succeeds.
Serialize ==
    /\ pc = "serialize"
    /\ pc' = "submit"
    /\ UNCHANGED <<ceiling, iter, handles, thread, task, outcome, outLog,
                   submitErrs, drainStarts, ins, ctl, pass, joined, sent, fault>>

\* Variant: the serialization error is logged and the loop continues.
AfterSerializeErr_Continue == "generate"

\* Variant: the serialization error flushes the tracked handles before leaving.
AfterSerializeErr_Drain == "drain_pop"

\* Where main goes on a serialization error (line 135: `?` returns Err).
AfterSerializeErr == "returned"

\* Line 135: serde_json::to_string fails, `?` returns the error from main.
SerializeErr ==
    /\ pc = "serialize"
    /\ pc' = AfterSerializeErr
    /\ fault' = "serialize"
    /\ UNCHANGED <<ceiling, iter, handles, thread, task, outcome, outLog,
                   submitErrs, drainStarts, ins, ctl, pass, joined, sent>>

\* Lines 137-145: send_result returns Ok(future).
SubmitOk ==
    /\ pc = "submit"
    /\ pc' = "spawn"
    /\ ins' = Append(ins, "ok")
    /\ sent' = [sent EXCEPT ![iter] = @ + 1]
    /\ UNCHANGED <<ceiling, iter, handles, thread, task, outcome, outLog,
                   submitErrs, drainStarts, ctl, pass, joined, fault>>

\* Variant: the submission error is propagated with `?` and main returns.
AfterSubmitErr_Propagate == "returned"

\* Variant: the failed submission is tried again with the same message.
AfterSubmitErr_Retry == "submit"

\* Where the loop goes after a failed submission (line 148: continue).
AfterSubmitErr == "generate"

\* Lines 137-149: send_result returns Err, the error is logged, `continue`.
SubmitErr ==
    /\ pc = "submit"
    /\ submitErrs' = submitErrs + 1
    /\ pc' = AfterSubmitErr
    /\ ins' = Append(ins, "err")
    /\ sent' = [sent EXCEPT ![iter] = @ + 1]
    /\ UNCHANGED <<ceiling, iter, handles, thread, task, outcome, outLog,
                   drainStarts, ctl, pass, joined, fault>>

\* Lines 152-158: tokio::spawn the delivery task and push its JoinHandle.
Spawn ==
    /\ pc = "spawn"
    /\ handles' = Append(handles, iter)
    /\ task' = [task EXCEPT ![iter] = "awaiting"]
    /\ ctl' = Append(ctl, <<"register", Len(handles) + 1>>)
    /\ pc' = "drain_check"
    /\ UNCHANGED <<ceiling, iter, thread, outcome, outLog,
                   submitErrs, drainStarts, ins, pass, joined, sent, fault>>

----------------------------------------------------------------------------
(* drain_threadpool: main.rs lines 181-193.                                 *)

\* Variant: the test written `handles.len() <= limit` (drains one too late).
BelowLimit_Inclusive(len, limit) == len <= limit

\* Variant: the test written `handles.len() + 1 < limit` (drains one too early).
BelowLimit_Early(len, limit) == len + 1 < limit

\* Line 182: the early-return test `handles.len() < limit`.
BelowLimit(len, limit) == len < limit

\* Variant: the handle just pushed is awaited before the limit is tested
\* (`tokio::spawn(..).await` in the loop body).
DrainCheck_AwaitsNewest ==
    /\ pc = "drain_check"
    /\ Len(handles) > 0 => task[handles[Len(handles)]] \in {"finished", "failed"}
    /\ IF Len(handles) < ceiling
       THEN /\ pc' = "generate"
            /\ UNCHANGED <<drainStarts, ctl, pass>>
       ELSE /\ drainStarts' = drainStarts + 1
            /\ ctl' = Append(ctl, <<"drain", Len(handles)>>)
            /\ pass' = Range(handles)
            /\ pc' = "drain_pop"
    /\ UNCHANGED <<ceiling, iter, handles, thread, task, outcome, outLog,
                   submitErrs, ins, joined, sent, fault>>

\* Lines 182-186: return at once below the limit, else log and start a pass.
DrainCheck ==
    /\ pc = "drain_check"
    /\ IF BelowLimit(Len(handles), ceiling)
       THEN /\ pc' = "generate"
            /\ UNCHANGED <<drainStarts, ctl, pass>>
       ELSE /\ drainStarts' = drainStarts + 1
            /\ ctl' = Append(ctl, <<"drain", Len(handles)>>)
            /\ pass' = Range(handles)
            /\ pc' = "drain_pop"
    /\ UNCHANGED <<ceiling, iter, handles, thread, task, outcome, outLog,
                   submitErrs, ins, joined, sent, fault>>

\* Variant: the oldest handle is taken (`handles.remove(0)`).
PopIndex_Front(h) == 1

\* Vec::pop (line 187) takes the last element.
PopIndex(h) == Len(h)

\* Vec::pop (line 187) leaves the other elements, in their order.
PopRest(h) ==
    SubSeq(h, 1, PopIndex(h) - 1) \o SubSeq(h, PopIndex(h) + 1, Len(h))

\* Line 187: `while let Some(thread) = handles.pop()`; None ends the pass.
DrainPop ==
    /\ pc = "drain_pop"
    /\ IF handles = <<>>
       THEN /\ pc' = "generate"
            /\ ctl' = Append(ctl, <<"return", 0>>)
            /\ UNCHANGED <<handles, thread>>
       ELSE /\ thread' = handles[PopIndex(handles)]
            /\ handles' = PopRest(handles)
            /\ ctl' = Append(ctl, <<"pop", Len(handles) - 1>>)
            /\ pc' = "drain_await"
    /\ UNCHANGED <<ceiling, iter, task, outcome, outLog,
                   submitErrs, drainStarts, ins, pass, joined, sent, fault>>

\* Variant: only a completed task wakes the join; a failed one never does.
Ended_Completed(st) == st = "finished"

\* Variant: the handle is dropped without waiting for its task.
Ended_Always(st) == TRUE

\* A JoinHandle is ready once its task has ended (completed or failed).
Ended(st) == st \in {"finished", "failed"}

\* Variant: a failed join leaves the while loop (`break` for `continue`).
AfterJoin_Break(failed) == IF failed THEN "generate" ELSE "drain_pop"

\* Lines 188-191: after a join, failed or not, the while loop goes on.
AfterJoin(failed) == "drain_pop"

\* Variant: the join result is discarded (`let _ = thread.await`).
JoinLog_Silent(failed) == <<>>

\* What drain_threadpool logs for a handle whose join failed (line 189).
JoinLog(failed) == IF failed THEN <<"JoinFailed">> ELSE <<>>

\* Lines 188-191: `thread.await`; a JoinError is logged and the loop continues.
DrainAwait ==
    /\ pc = "drain_await"
    /\ Ended(task[thread])
    /\ outLog' = [outLog EXCEPT ![thread] = @ \o JoinLog(task[thread] = "failed")]
    /\ joined' = joined \cup {thread}
    /\ pc' = AfterJoin(task[thread] = "failed")
    /\ thread' = 0
    /\ UNCHANGED <<ceiling, iter, handles, task, outcome,
                   submitErrs, drainStarts, ins, ctl, pass, sent, fault>>

----------------------------------------------------------------------------
(* The spawned delivery task: main.rs lines 152-158.                        *)

\* Line 153: `result.await` returns one of the three outcomes.
TaskResolve(id) ==
    /\ task[id] = "awaiting"
    /\ \E o \in Outcomes : outcome' = [outcome EXCEPT ![id] = o]
    /\ task' = [task EXCEPT ![id] = "resolved"]
    /\ UNCHANGED <<ceiling, pc, iter, handles, thread, outLog,
                   submitErrs, drainStarts, ins, ctl, pass, joined, sent, fault>>

\* Lines 154-156: the line logged for an outcome.
OutcomeLog(o) == <<o>>

\* Variant: a completing task removes its own handle from a shared set.
HandlesAfterTask_SelfRemove(h, id) == SelectSeq(h, LAMBDA x : x # id)

\* Lines 152-158: the async block captures only `result`, not `handles`.
HandlesAfterTask(h, id) == h

\* Lines 154-157: the match arm logs the outcome and the task completes.
TaskLog(id) ==
    /\ task[id] = "resolved"
    /\ outLog' = [outLog EXCEPT ![id] = @ \o OutcomeLog(outcome[id])]
    /\ task' = [task EXCEPT ![id] = "finished"]
    /\ handles' = HandlesAfterTask(handles, id)
    /\ UNCHANGED <<ceiling, pc, iter, thread, outcome,
                   submitErrs, drainStarts, ins, ctl, pass, joined, sent, fault>>

\* The task ends at its only suspension point (line 153) without completing:
\* its JoinHandle then yields the Err of line 188.
TaskFail(id) ==
    /\ task[id] = "awaiting"
    /\ task' = [task EXCEPT ![id] = "failed"]
    /\ UNCHANGED <<ceiling, pc, iter, handles, thread, outcome, outLog,
                   submitErrs, drainStarts, ins, ctl, pass, joined, sent, fault>>

\* Lines 107-108: once main has panicked or returned, the tokio runtime
\* shuts down and drops every task that has not completed.
TaskDrop(id) ==
    /\ pc \in StoppedPcs
    /\ task[id] \in {"awaiting", "resolved"}
    /\ task' = [task EXCEPT ![id] = "dropped"]
    /\ UNCHANGED <<ceiling, pc, iter, handles, thread, outcome, outLog,
                   submitErrs, drainStarts, ins, ctl, pass, joined, sent, fault>>

----------------------------------------------------------------------------

Next ==
    \/ Generate
    \/ GeneratePanic
    \/ Serialize
    \/ SerializeErr
    \/ SubmitOk
    \/ SubmitErr
    \/ Spawn
    \/ DrainCheck
    \/ DrainPop
    \/ DrainAwait
    \/ \E id \in Ids : TaskResolve(id)
    \/ \E id \in Ids : TaskLog(id)
    \/ \E id \in Ids : TaskFail(id)
    \/ \E id \in Ids : TaskDrop(id)

Spec == Init /\ [][Next]_vars

\* The tokio scheduler keeps polling every spawned task and the driving
\* loop inside drain_threadpool, and every delivery future resolves.
Fairness ==
    /\ WF_vars(DrainPop)
    /\ WF_vars(DrainAwait)
    /\ \A id \in Ids : WF_vars(TaskResolve(id)) /\ WF_vars(TaskLog(id))

FairSpec == Spec /\ Fairness

TypeOK ==
    /\ ceiling \in 1..MaxCeiling
    /\ pc \in LoopPcs \cup DrainPcs \cup StoppedPcs
    /\ iter \in 0..MaxIter
    /\ handles \in Seq(Ids)
    /\ thread \in Ids \cup {0}
    /\ task \in [Ids -> {"none", "awaiting", "resolved", "finished", "failed", "dropped"}]
    /\ outcome \in [Ids -> Outcomes \cup {"none"}]
    /\ submitErrs \in 0..MaxIter
    /\ drainStarts \in 0..MaxIter
    /\ pass \subseteq Ids
    /\ joined \subseteq Ids
    /\ sent \in [Ids -> 0..1]
    /\ fault \in {"none", "clock", "serialize"}

----------------------------------------------------------------------------
(* Properties.                                                              *)

\* Deliveries whose task was spawned and for which no outcome line exists yet.
Unobserved == {id \in Ids : task[id] # "none" /\ outLog[id] = <<>>}

\* A delivery accepted by send_result whose task is not spawned yet (line 145-152).
Pending == IF pc = "spawn" THEN 1 ELSE 0

\* C1: in every reachable state, the number of deliveries that were submitted
\* successfully and whose outcome has not been observed (logged) yet is at
\* most the ceiling.
C1_OutstandingAtMostCeiling == Cardinality(Unobserved) + Pending <= ceiling

\* C1 case: the ceiling is reached with every tracked delivery still unobserved.
C1_Witness ==
    /\ ceiling = 3
    /\ pc = "drain_check"
    /\ Cardinality(Unobserved) = ceiling
    /\ \A id \in Unobserved : task[id] = "awaiting"

\* C2: whenever the drain decision is evaluated (entry of drain_threadpool,
\* after the push) the tracked set holds at most ceiling handles, and
\* whenever the loop is on its way to register a handle the set is strictly
\* below the ceiling (it was below it, or it has been drained to empty).
C2_TrackedAtDrainDecision ==
    /\ pc = "drain_check" => Len(handles) <= ceiling
    /\ pc \in LoopPcs => Len(handles) < ceiling
    /\ (pc \in LoopPcs /\ pass # {}) => Range(handles) \cap pass = {}

\* C2 case: the decision is evaluated at the ceiling for the second time,
\* the first pass having emptied the set in between.
C2_Witness ==
    /\ pc = "drain_check"
    /\ Len(handles) = ceiling
    /\ drainStarts = 1
    /\ ceiling = 2

\* C3: every drain pass that was triggered started with exactly ceiling
\* handles in the tracked set.
C3_DrainTriggeredAtCeiling ==
    \A i \in DOMAIN ctl : ctl[i][1] = "drain" => ctl[i][2] = ceiling

\* C3 case: a pass has just been triggered, nothing popped yet.
C3_Witness ==
    /\ pc = "drain_pop"
    /\ ctl # <<>>
    /\ ctl[Len(ctl)] = <<"drain", 3>>
    /\ Len(handles) = 3

\* The step on which a drain pass that was started returns to the loop.
DrainPassReturns == pc \in {"drain_pop", "drain_await"} /\ pc' \notin DrainPcs

\* C4: when drain_threadpool was entered with at least ceiling handles and
\* returns, the tracked set is empty and every handle that was in it at the
\* call has been removed and awaited to the end of its task, whatever the
\* task ended with.
C4_DrainLeavesEmpty ==
    [][DrainPassReturns =>
          /\ handles' = <<>>
          /\ thread' = 0
          /\ Cardinality(pass) >= ceiling
          /\ pass \subseteq joined'
          /\ \A id \in pass : Ended(task'[id])]_vars

\* C4 case: a pass of three handles has returned; one task failed, one
\* delivery was rejected, one was delivered.
C4_Witness ==
    /\ pc = "generate"
    /\ ctl # <<>>
    /\ ctl[Len(ctl)] = <<"return", 0>>
    /\ handles = <<>>
    /\ pass = {1, 2, 3}
    /\ joined = {1, 2, 3}
    /\ task[2] = "failed"
    /\ outcome[1] = "BrokerRejected"
    /\ outcome[3] = "Delivered"

\* C5: when drain_threadpool is entered with fewer than ceiling handles it
\* returns at once: same handles in the same order, nothing popped or
\* awaited, no drain-start line logged, no outcome logged by the call.
C5_BelowCeilingNoOp ==
    [][(pc = "drain_check" /\ Len(handles) < ceiling /\ pc' # pc) =>
          /\ pc' = "generate"
          /\ handles' = handles
          /\ thread' = thread
          /\ joined' = joined
          /\ pass' = pass
          /\ drainStarts' = drainStarts
          /\ ctl' = ctl
          /\ outLog' = outLog
          /\ task' = task]_vars

\* C5 case: the call has returned below the ceiling with handles tracked.
C5_Witness ==
    /\ pc = "generate"
    /\ handles = <<1, 2>>
    /\ ceiling = 3
    /\ drainStarts = 0
    /\ joined = {}
    /\ ctl = <<<<"register", 1>>, <<"register", 2>>>>

\* A drain pass has started and a handle of it has not been awaited yet.
DrainInProgress == \E id \in pass : id \notin joined

\* C6: from the start of a drain pass until all its handles are awaited,
\* the loop generates, serializes, submits and registers nothing.
C6_DrainSynchronous ==
    [][DrainInProgress =>
          /\ iter' = iter
          /\ ins' = ins
          /\ pc' \notin LoopPcs \ {"generate"}
          /\ Range(handles') \subseteq Range(handles)
          /\ \A id \in Ids : task[id] = "none" => task'[id] = "none"]_vars

\* C6 case: the pass is blocked on a delivery that has not resolved, with
\* handles left in the set and iterations left to run.
C6_Witness ==
    /\ DrainInProgress
    /\ pc = "drain_await"
    /\ task[thread] = "awaiting"
    /\ Len(handles) >= 1
    /\ iter < MaxIter

\* The step on which the submission call fails.
SubmitFails == Len(ins') = Len(ins) + 1 /\ ins'[Len(ins')] = "err"

\* C7: a failed submission logs one error, registers no handle, spawns no
\* task, leaves the tracked set as it is, and leaves the loop at the start
\* of its next iteration.
C7_SubmitErrorContinues ==
    [][SubmitFails =>
          /\ submitErrs' = submitErrs + 1
          /\ handles' = handles
          /\ task' = task
          /\ ctl' = ctl
          /\ outLog' = outLog
          /\ pc' = "generate"]_vars

\* C7 case: the iteration after a failed submission is running, the handles
\* registered before the failure still tracked.
C7_Witness ==
    /\ pc = "serialize"
    /\ ins = <<"ok", "err">>
    /\ submitErrs = 1
    /\ handles = <<1>>
    /\ iter = 3

\* The delivery behind a handle ended in a failure.
Failure(id) ==
    \/ task[id] = "failed"
    \/ outcome[id] \in {"BrokerRejected", "Cancelled"}

\* The failure line that belongs to a handle.
FailureLine(id) ==
    IF task[id] = "failed" THEN <<"JoinFailed">> ELSE <<outcome[id]>>

\* C8: in a drain pass, awaiting a handle whose delivery was rejected or
\* whose join failed does not end the pass: the failure is logged, the
\* handles still in the set stay there to be popped next, and a pass in
\* which a failure was met still returns with an empty set.
C8_FailureDoesNotAbortDrain ==
    [][/\ (pc = "drain_await" /\ pc' # pc /\ Failure(thread)) =>
             /\ pc' = "drain_pop"
             /\ handles' = handles
             /\ outLog'[thread] = FailureLine(thread)
       /\ (DrainPassReturns /\ \E id \in pass : Failure(id)) =>
             /\ handles' = <<>>
             /\ pass \subseteq joined']_vars

\* C8 case: the first handle awaited in a pass of three had a failed join,
\* the second a rejected delivery, and the pass went on to the last one.
C8_Witness ==
    /\ pc = "drain_await"
    /\ pass = {1, 2, 3}
    /\ joined = {2, 3}
    /\ thread = 1
    /\ task[3] = "failed"
    /\ outcome[2] = "BrokerRejected"
    /\ outLog[3] = <<"JoinFailed">>
    /\ outLog[2] = <<"BrokerRejected">>

\* The three kinds of outcome line: successful delivery, broker rejection,
\* task-level cancellation or failure.
OutcomeKind(line) ==
    CASE line = "Delivered" -> "success"
      [] line = "BrokerRejected" -> "rejection"
      [] line \in {"Cancelled", "JoinFailed"} -> "task"
      [] OTHER -> "none"

\* C9: for every handle removed and awaited by a drain pass exactly one
\* outcome line has been logged, of one of the three kinds and matching
\* what the task ended with; and the loop is outside a pass only when all
\* handles of the pass have been awaited.
C9_OneOutcomePerDrainedHandle ==
    /\ \A id \in joined :
          /\ Len(outLog[id]) = 1
          /\ OutcomeKind(outLog[id][1]) \in {"success", "rejection", "task"}
          /\ task[id] = "finished" => outLog[id][1] = outcome[id]
          /\ task[id] = "failed" => outLog[id][1] = "JoinFailed"
    /\ pc \in LoopPcs => (pass \subseteq joined /\ (pass # {} => handles \in Seq(Ids \ pass)))

\* C9 case: one pass has drained a delivered, a rejected and a failed handle.
C9_Witness ==
    /\ joined = {1, 2, 3}
    /\ handles = <<>>
    /\ outLog[1] = <<"Delivered">>
    /\ outLog[2] = <<"JoinFailed">>
    /\ outLog[3] = <<"BrokerRejected">>

\* The steps a drain pass takes on a set of n handles.
RECURSIVE PassSteps(_)
PassSteps(n) ==
    IF n = 0 THEN <<<<"return", 0>>>>
    ELSE <<<<"pop", n - 1>>>> \o PassSteps(n - 1)

\* The register and drain steps, with set sizes, determined by the
\* submission results rs alone, starting from a set of n handles.
RECURSIVE ControlOf(_, _, _)
ControlOf(rs, n, c) ==
    IF rs = <<>> THEN <<>>
    ELSE IF Head(rs) = "err" THEN ControlOf(Tail(rs), n, c)
    ELSE IF n + 1 < c
         THEN <<<<"register", n + 1>>>> \o ControlOf(Tail(rs), n + 1, c)
         ELSE <<<<"register", n + 1>>, <<"drain", n + 1>>>>
                 \o PassSteps(n + 1) \o ControlOf(Tail(rs), 0, c)

IsPrefix(s, t) == Len(s) <= Len(t) /\ SubSeq(t, 1, Len(s)) = s

\* C10: the register and drain steps of the loop, with the set size at each
\* step, are a function of the ceiling and of the submission results alone:
\* two runs with the same results and different delivery outcomes take the
\* same steps.  The steps taken so far are a prefix of that function's
\* value, and all of it once the iteration is over.
C10_OutcomesDoNotSteer ==
    /\ IsPrefix(ctl, ControlOf(ins, 0, ceiling))
    /\ pc \in {"generate", "serialize", "submit"} => ctl = ControlOf(ins, 0, ceiling)

\* C10 case: a pass has completed in which the deliveries ended in three
\* different ways, and the loop has registered the next handle.
C10_Witness ==
    /\ pc = "generate"
    /\ ceiling = 2
    /\ ins = <<"ok", "err", "ok", "ok">>
    /\ task[1] = "failed"
    /\ outcome[3] = "Cancelled"
    /\ task[4] = "resolved"
    /\ outcome[4] = "Delivered"
    /\ handles = <<4>>

\* The step on which a fatal fault occurs (clock before the epoch in
\* with_rng, or a serialization failure).
FatalFaultOccurs == fault = "none" /\ fault' # "none"

\* C11: a fatal fault stops the loop in the iteration it occurs in, before
\* the submission: a clock fault produces no event, the event of a failed
\* serialization is never passed to send_result, no handle is registered and
\* no task spawned; afterwards the loop takes no step at all.
C11_FatalFaultAborts ==
    [][/\ FatalFaultOccurs =>
             /\ pc' \in StoppedPcs
             /\ fault' = "clock" => iter' = iter
             /\ fault' = "serialize" => sent[iter] = 0
             /\ ins' = ins /\ sent' = sent
             /\ handles' = handles /\ task' = task
       /\ fault # "none" =>
             /\ pc' = pc /\ iter' = iter
             /\ ins' = ins /\ sent' = sent
             /\ handles' = handles /\ ctl' = ctl
             /\ \A id \in Ids : task[id] = "none" => task'[id] = "none"]_vars

\* C11 case: the third iteration failed to serialize with two handles
\* tracked, and a delivery task has moved on after the abort.
C11_Witness ==
    /\ pc = "returned"
    /\ fault = "serialize"
    /\ iter = 3
    /\ sent = [i \in Ids |-> IF i \in {1, 2} THEN 1 ELSE 0]
    /\ handles = <<1, 2>>
    /\ task[1] = "finished"
    /\ task[3] = "none"

\* C12: the loop is stopped only after a fatal fault, a panic after a clock
\* fault and a return after a serialization failure; without a fatal fault
\* it is somewhere in its body, whatever recoverable errors it has met.
C12_StopsOnlyOnFatalFault ==
    /\ pc \in StoppedPcs => fault \in {"clock", "serialize"}
    /\ pc = "panicked" <=> fault = "clock"
    /\ pc = "returned" <=> fault = "serialize"
    /\ fault = "none" => pc \in LoopPcs \cup DrainPcs

\* C12 case: the loop has met a failed submission, a failed join, a rejected
\* and a cancelled delivery, kept running, and stops on a clock fault.
C12_Witness ==
    /\ pc = "panicked"
    /\ fault = "clock"
    /\ submitErrs >= 1
    /\ \E id \in joined : task[id] = "failed"
    /\ \E id \in Ids : outLog[id] = <<"BrokerRejected">>
    /\ \E id \in Ids : outLog[id] = <<"Cancelled">>

\* Number of calls of send_result so far.
RECURSIVE SentUpTo(_)
SentUpTo(n) == IF n = 0 THEN 0 ELSE sent[n] + SentUpTo(n - 1)

\* C13: every generated message is passed to send_result at most once, a
\* message not generated yet never; every call of send_result is the one
\* call of a different message, so no failed, rejected or cancelled message
\* is submitted again.
C13_NoRetry ==
    /\ \A id \in Ids : sent[id] <= 1
    /\ \A id \in Ids : id > iter => sent[id] = 0
    /\ \A id \in Ids : id < iter => sent[id] = 1
    /\ SentUpTo(MaxIter) = Len(ins)

\* C13 case: four messages ended in a failed submission, a rejection, a
\* failed join and a cancellation, each submitted once.
C13_Witness ==
    /\ iter = 4
    /\ pc = "generate"
    /\ ins = <<"err", "ok", "ok", "ok">>
    /\ sent = [i \in Ids |-> IF i <= 4 THEN 1 ELSE 0]
    /\ outLog[2] = <<"BrokerRejected">>
    /\ outLog[3] = <<"JoinFailed">>
    /\ outLog[4] = <<"Cancelled">>

\* C14: when every delivery future resolves and every task is scheduled,
\* a drain pass that has started leads to the loop back at the generation
\* step with the tracked set empty and every handle of the pass awaited.
C14_DrainCompletes ==
    (pc \in {"drain_pop", "drain_await"})
        ~> (pc = "generate" /\ handles = <<>> /\ pass \subseteq joined)

\* C14 case: after a completed pass of three handles the loop has generated
\* the next message.
C14_Witness ==
    /\ pc = "serialize"
    /\ iter = 4
    /\ ceiling = 3
    /\ drainStarts = 1
    /\ joined = {1, 2, 3}
    /\ handles = <<>>

\* A step of a spawned delivery task: the state of a spawned task changes
\* (its future resolves, it logs and completes, it fails, it is dropped).
TaskStep == \E id \in Ids : task[id] # "none" /\ task'[id] # task[id]

\* C15: no step of a spawned delivery task changes the tracked handle set,
\* the handle being awaited, or the position of the driving loop; pushes and
\* pops are steps of the loop only.
C15_TasksLeaveTrackedSet ==
    [][TaskStep =>
          /\ handles' = handles
          /\ thread' = thread
          /\ pc' = pc
          /\ joined' = joined
          /\ pass' = pass]_vars

\* C15 case: one tracked task has logged and completed, another has failed,
\* and both handles are still in the set in push order.
C15_Witness ==
    /\ pc = "submit"
    /\ handles = <<1, 2>>
    /\ task[1] = "finished"
    /\ outLog[1] = <<"Delivered">>
    /\ task[2] = "failed"

\* C16: outside the await of a drain pass the loop never waits for a
\* delivery: at every such position its step is enabled whatever the state
\* of the tasks; and a spawned task never waits for the loop: it can resolve
\* and log at any position of the loop.
C16_ConfirmationConcurrent ==
    /\ (pc = "generate" /\ iter < MaxIter) => ENABLED Generate
    /\ pc = "serialize" => ENABLED Serialize
    /\ pc = "submit" => ENABLED SubmitOk /\ ENABLED SubmitErr
    /\ pc = "spawn" => ENABLED Spawn
    /\ pc = "drain_check" => ENABLED DrainCheck
    /\ pc = "drain_pop" => ENABLED DrainPop
    /\ \A id \in Ids : task[id] = "awaiting" => ENABLED TaskResolve(id)
    /\ \A id \in Ids : task[id] = "resolved" => ENABLED TaskLog(id)

\* C16 case: before any drain pass, the first delivery has been logged, the
\* second is still unresolved, and the loop has gone on to submit a third.
C16_Witness ==
    /\ drainStarts = 0
    /\ ceiling = 3
    /\ pc = "spawn"
    /\ iter = 3
    /\ handles = <<1, 2>>
    /\ outLog[1] = <<"Delivered">>
    /\ task[2] = "awaiting"

\* The handle popped by the drain pass and not yet joined, if any.
Awaited == IF thread = 0 THEN {} ELSE {thread}

\* C17 as stated: every delivery without an observed outcome has its handle
\* in the tracked set, so there are at most as many of them as handles.
C17_UnobservedInTrackedSet ==
    /\ Unobserved \subseteq Range(handles)
    /\ Cardinality(Unobserved) <= Len(handles)

\* C17 amended: every delivery without an observed outcome has its handle in
\* the tracked set or is the one handle the drain pass has popped and is
\* awaiting; there are at most as many of them as tracked handles plus that
\* one.
C17_UnobservedTrackedOrAwaited ==
    /\ Unobserved \subseteq Range(handles) \cup Awaited
    /\ Cardinality(Unobserved) <= Len(handles) + Cardinality(Awaited)
    /\ Awaited \cap Range(handles) = {}
    /\ thread # 0 <=> pc = "drain_await"

\* C17 case: the pass has popped the newest handle, whose delivery is still
\* unresolved, while an older one with an unlogged outcome stays tracked.
C17_Witness ==
    /\ pc = "drain_await"
    /\ thread = 2
    /\ task[2] = "awaiting"
    /\ handles = <<1>>
    /\ task[1] = "resolved"
    /\ Unobserved = {1, 2}

\* Number of successful submissions so far.
Oks == Cardinality({i \in DOMAIN ins : ins[i] = "ok"})

\* Successful submissions since the latest drain pass started (or since start).
OksSinceDrain == Oks - ceiling * drainStarts

\* C18: outside the pop loop the tracked set size (plus the submission
\* accepted and not pushed yet) is the number of successful submissions since
\* the latest drain pass, whatever the tasks have done; the drain test is
\* only reached after a successful submission; and once the test is made,
\* one pass has started for every ceiling successful submissions.
C18_SizeCountsSubmissions ==
    /\ pc \notin {"drain_pop", "drain_await"} =>
          Len(handles) + Pending = OksSinceDrain
    /\ pc \in {"drain_pop", "drain_await"} => OksSinceDrain = 0
    /\ pc = "drain_check" => ins[Len(ins)] = "ok"
    /\ pc \notin {"spawn", "drain_check"} => drainStarts = Oks \div ceiling
    /\ pc \in {"spawn", "drain_check"} => drainStarts = (Oks - 1) \div ceiling

\* C18 case: two of three submissions succeeded, both deliveries have
\* already been logged, and the set still holds two handles below ceiling 3.
C18_Witness ==
    /\ pc = "generate"
    /\ ceiling = 3
    /\ ins = <<"ok", "err", "ok">>
    /\ handles = <<1, 3>>
    /\ task[1] = "finished"
    /\ task[3] = "finished"
    /\ drainStarts = 0

\* The step on which the drain pass removes a handle from the set.
HandlePopped == thread = 0 /\ thread' # 0

\* C19: a drain pass takes the handles last in, first out: the handle it
\* removes is the last one pushed of those in the set (ids grow in push
\* order), the others stay in their order; and while the task of the
\* removed handle has not ended the pass removes nothing else, whatever the
\* older tasks have done.
C19_DrainIsLifo ==
    [][/\ HandlePopped =>
             /\ handles # <<>>
             /\ thread' = handles[Len(handles)]
             /\ \A id \in Range(handles) : id <= thread'
             /\ handles' = SubSeq(handles, 1, Len(handles) - 1)
       /\ (pc = "drain_await" /\ task[thread] \in {"awaiting", "resolved"}) =>
             /\ pc' = pc
             /\ thread' = thread
             /\ handles' = handles
             /\ joined' = joined]_vars

\* C19 case: the pass waits on the newest, unresolved delivery while the
\* two older ones, still in the set, have completed.
C19_Witness ==
    /\ pc = "drain_await"
    /\ thread = 3
    /\ task[3] = "awaiting"
    /\ handles = <<1, 2>>
    /\ task[1] = "finished"
    /\ task[2] = "finished"

\* C20: from the fatal fault on no drain pass runs: no handle is popped or
\* awaited, no drain start is logged, the tracked set stays as it was at the
\* abort; a task dropped at the shutdown has logged no outcome and never
\* will, and tasks are only dropped after a fatal fault.
C20_AbortSkipsDrain ==
    [][/\ (fault # "none" \/ fault' # "none") =>
             /\ handles' = handles
             /\ thread' = thread
             /\ joined' = joined
             /\ pass' = pass
             /\ drainStarts' = drainStarts
       /\ \A id \in Ids : task[id] = "dropped" =>
             /\ fault # "none"
             /\ id \in Range(handles) \ joined
             /\ outLog[id] = <<>>
             /\ task'[id] = "dropped" /\ outLog'[id] = <<>>]_vars

\* C20 case: the clock fault hit with two handles tracked; both deliveries
\* were in flight and ended at the shutdown with nothing logged.
C20_Witness ==
    /\ pc = "panicked"
    /\ handles = <<1, 2>>
    /\ joined = {}
    /\ drainStarts = 0
    /\ task[1] = "dropped"
    /\ task[2] = "dropped"
    /\ outcome[2] = "Delivered"
    /\ Unobserved = {1, 2}

====
